---- MODULE Spec2Model ----
(***************************************************************************)
(* Model of the research-paper podcast pipeline:                           *)
(*   Podcast_Code/make_podcast.py  (process_paper, make_podcast, ...)      *)
(*   Podcast_Code/llm_response.py  (get_llm_response, ...)                 *)
(*   Podcast_Code/generate_audio.py (VOICES, generate_audio)               *)
(*   Make_All_Podcasts.py          (process_all_papers, feed handling)     *)
(* External collaborators (language model, synthesizer, file system,       *)
(* remote storage) answer nondeterministically; every answer other than    *)
(* the normal one is counted in faults, which is capped by MaxFaults.      *)
(***************************************************************************)
EXTENDS Integers, Sequences, FiniteSets, TLC

\* ------------------------------------------------------------ bounds
NumDocs == 2
MaxSections == 2
MaxFaults == 2
MaxRuns == 2
MaxVoices == 3      \* longest voice list handed to get_next_voice directly
MaxEntries == 4     \* most add_podcast_to_feed calls a direct caller makes
MaxFiles == 2       \* longest file list handed to combine_audio_files directly
MaxPieces == 4      \* most pieces a text handed to clean_text directly is made of

Docs == 1..NumDocs
SectionNames == {"Data", "Findings", "metadata"}
Plans == UNION {[1..n -> SectionNames] : n \in 0..MaxSections}

\* ------------------------------------------------------------ constants of the code
VOICES == <<"af_bella", "af_sarah", "af_heart", "am_michael">>

\* generate_audio writes at 24000 Hz; combine_audio_files' target_sr defaults
\* to 44100 Hz.
SYNTH_SR == 24000
TARGET_SR == 44100

METADATA_FILE == "metadata"
SUMMARY_FILE == "high_school_summary"
BACKGROUND_FILE == "background_overview"
TAKEAWAY_FILE == "final_takeaways"

VARIABLES
    pc,                 \* position of the single thread of control
    doc,                \* document of the current process_paper call (0: none)
    metadata_dict,      \* "full" or "empty": the metadata handed to make_podcast
    temp_dir,           \* TRUE iff the directory temp_audio exists
    temp_files,         \* file name (stem) -> audio data, for the files in temp_audio
    output_file,        \* per document: number of writes to its output path (0: no file)
    current_voice_idx,  \* make_podcast's rotation index
    audio_files,        \* make_podcast's ordered list of segment files
    full_script,        \* make_podcast's list of segment texts
    high_school_summary,\* text returned by get_high_school_summary
    all_bullet_points,  \* the planner's sections (sequence of section names)
    voice_log,          \* voice passed to generate_audio, per synthesized segment
    final_audio,        \* what combine_audio_files wrote in this call (<<>>: nothing)
    takeaways_call,     \* what get_final_takeaways asked the language model with
    error,              \* "none", or the kind of the exception in flight / raised
    llm_calls,          \* language-model calls made by the current call
    synth_calls,        \* generate_audio calls made by the current call
    llm_failed,         \* a language-model call of the current call failed
    read_failed,        \* a segment file could not be read by the current call's assembly
    output_at_entry,    \* output_file of the document when the current call was entered
    faults,             \* abnormal answers of the environment so far
    run,                \* batch runs (process_all_papers calls) started
    idx,                \* position of the batch loop in pdf_files
    fg,                 \* the FeedGenerator's entries, first entry first
    existing_ids,       \* the identifiers process_all_papers holds as already in the feed
    feed_xml,           \* the local feed file
    dropbox_feed,       \* the feed file in remote storage
    result,             \* per document: how the current run's visit ended
    uploads,            \* documents whose audio upload was attempted in the current run
    synth_run,          \* documents for which audio was synthesized in the current run
    publish_failed,     \* documents whose audio an earlier run produced and failed to publish
    faults_at_start,    \* value of faults when the current run started
    aborted,            \* "no", or where an exception left process_all_papers in the
                        \* current run: "startup" (before the loop) or "document"
    summary,            \* what process_all_papers logged as the current run ended
    calls,              \* calls of one function made by a direct caller of it, in
                        \* order: [args |-> ..., ret |-> ...]
    other_run           \* a second process_all_papers call running at the same
                        \* time: whether it has loaded the feed, its fg and
                        \* existing_ids, and the documents it registered

episode == <<doc, metadata_dict, current_voice_idx, audio_files, full_script,
             high_school_summary, all_bullet_points, voice_log, final_audio, takeaways_call,
             llm_calls, synth_calls, llm_failed, read_failed, output_at_entry>>
disk == <<temp_dir, temp_files, output_file>>
feed == <<fg, existing_ids, feed_xml, dropbox_feed>>
history == <<result, uploads, synth_run, publish_failed, faults_at_start, aborted>>
report == <<summary, calls, other_run>>
batch == <<run, idx, feed, history, report>>
vars == <<pc, episode, disk, error, faults, batch>>

NoText == [ord |-> -1, src |-> "none"]
NoCall == [script |-> <<>>, with_pdf |-> FALSE, made |-> FALSE]
CanFault == faults < MaxFaults

\* ------------------------------------------------------------ helpers
\* The file a section is rendered to: temp_dir / f"{section['name']}.wav".
SectionFile(name) == name

\* Mutant of get_next_voice: the index is not advanced.
get_next_voice_stuck(voices, current_index) ==
    LET next_index == (current_index + 1) % Len(voices)
    IN  <<voices[next_index + 1], current_index>>

\* get_next_voice: 0-based index into a 1-based sequence.
get_next_voice(voices, current_index) ==
    LET next_index == (current_index + 1) % Len(voices)
    IN  <<voices[next_index + 1], next_index>>

\* get_llm_response: generate_content's exceptions are caught and their
\* message is returned as the response (outcome "error_text"); upload_file is
\* outside the try, so with a pdf the call can also raise.
LlmOutcomes(with_pdf) ==
    {"text"} \cup (IF CanFault THEN {"error_text"} \cup (IF with_pdf THEN {"raise"} ELSE {})
                   ELSE {})
get_llm_response(outcome, ord) ==
    [ord |-> ord, src |-> IF outcome = "text" THEN "model" ELSE "error"]

\* get_openai_structured_response: parses or raises.
OpenAiOutcomes == {"parsed"} \cup (IF CanFault THEN {"raise"} ELSE {})

\* ------------------------------------------------------------ clean_text
\* A text is a sequence of characters.  The classes of the pattern
\* [^a-zA-Z0-9.,!?'\-\s], each with the members the model's texts can hold.
Letters == {"a", "A", "p", "e", "r", "c", "n", "t"}
Digits == {"7"}
Punctuation == {".", ",", "!", "?", "'", "-"}
Whitespace == {" ", "\n", "\t"}
PERCENT == <<" ", "p", "e", "r", "c", "e", "n", "t">>

\* Mutant of replace: only the first occurrence is replaced.
RECURSIVE replace_first(_, _, _)
replace_first(text, old, new) ==
    IF text = <<>> THEN <<>>
    ELSE IF Head(text) = old THEN new \o Tail(text)
    ELSE <<Head(text)>> \o replace_first(Tail(text), old, new)

\* str.replace(old, new) for a one-character old.
RECURSIVE replace(_, _, _)
replace(text, old, new) ==
    IF text = <<>> THEN <<>>
    ELSE (IF Head(text) = old THEN new ELSE <<Head(text)>>) \o replace(Tail(text), old, new)

\* re.sub(r'[^a-zA-Z0-9.,!?\'\-\s]', ' ', text)
sub_special(text) ==
    [i \in 1..Len(text) |->
        IF text[i] \in Letters \cup Digits \cup Punctuation \cup Whitespace
        THEN text[i] ELSE " "]

\* re.sub(r'\s+', ' ', text)
RECURSIVE sub_spaces(_)
sub_spaces(text) ==
    IF text = <<>> THEN <<>>
    ELSE IF Head(text) \in Whitespace
    THEN IF Len(text) > 1 /\ text[2] \in Whitespace
         THEN sub_spaces(Tail(text))
         ELSE <<" ">> \o sub_spaces(Tail(text))
    ELSE <<Head(text)>> \o sub_spaces(Tail(text))

\* Mutant of strip: only leading whitespace is removed.
RECURSIVE strip_leading(_)
strip_leading(text) ==
    IF text # <<>> /\ Head(text) \in Whitespace THEN strip_leading(Tail(text)) ELSE text

\* str.strip()
RECURSIVE strip(_)
strip(text) ==
    IF text = <<>> THEN <<>>
    ELSE IF Head(text) \in Whitespace THEN strip(Tail(text))
    ELSE IF text[Len(text)] \in Whitespace THEN strip(SubSeq(text, 1, Len(text) - 1))
    ELSE text

\* Mutant of clean_text: runs of whitespace are collapsed before the special
\* characters are replaced.
clean_text_collapse_first(text) ==
    strip(sub_special(sub_spaces(replace(replace(text, "%", PERCENT), "*", <<" ">>))))

\* clean_text, lines 37-50.
clean_text(text) ==
    strip(sub_spaces(sub_special(replace(replace(text, "%", PERCENT), "*", <<" ">>))))

\* generate_audio: renders text in a voice, or raises.
SynthOutcomes == {"ok"} \cup (IF CanFault THEN {"raise"} ELSE {})
\* What generate_audio writes: the samples (known by the text and the voice
\* they render), their rate and their number, which depends on the text and is
\* taken to be text.ord + 2 seconds.
Audio(text, voice) ==
    [samples |-> [text |-> text, voice |-> voice],
     sr |-> SYNTH_SR,
     len |-> SYNTH_SR * (text.ord + 2)]

Cost(outcome) == IF outcome \in {"text", "parsed", "ok", "removed", "read"} THEN 0 ELSE 1

\* cleanup_temp_files: unlink every file (only FileNotFoundError is caught),
\* then rmdir (OSError is logged).  An outcome is
\*   [kind |-> "removed"], [kind |-> "rmdir_failed"] or
\*   [kind |-> "unlink_error", at |-> f, removed |-> R]: unlink of f raised
\*   after the files of R (those glob yielded before f) were removed.  glob's
\*   order is unspecified; f is taken to be the first or the last file it yields.
CleanupOutcomes(exists, files) ==
    {[kind |-> "removed"]}
    \cup (IF exists /\ CanFault
          THEN {[kind |-> "rmdir_failed"]}
               \cup UNION {{[kind |-> "unlink_error", at |-> f, removed |-> R] :
                              R \in {{}, DOMAIN files \ {f}}} : f \in DOMAIN files}
          ELSE {})

cleanup_temp_files(exists, files, o) ==
    IF ~exists THEN [dir |-> FALSE, files |-> files, raised |-> FALSE]
    ELSE IF o.kind = "unlink_error"
    THEN [dir |-> TRUE,
          files |-> [f \in DOMAIN files \ o.removed |-> files[f]],
          raised |-> TRUE]
    ELSE [dir |-> (o.kind = "rmdir_failed"), files |-> <<>>, raised |-> FALSE]

\* combine_audio_files, lines 188-192: what is appended for a file read as
\* (data, sr).  signal.resample returns num_samples samples computed from all
\* of data; a buffer at the target rate is appended as it was read.
\* num_samples = int(len(data) * target_sr / sr), the product taken apart so
\* that no intermediate value leaves the checker's 32-bit integers:
\* with len = q * sr + r, floor(len * target_sr / sr) = q * target_sr +
\* floor(r * target_sr / sr).
num_samples(len, sr, target_sr) ==
    (len \div sr) * target_sr + ((len % sr) * target_sr) \div sr

resample(data, sr, target_sr) ==
    IF sr # target_sr
    THEN [samples |-> [resampled |-> data.samples, from |-> sr],
          len |-> num_samples(data.len, sr, target_sr)]
    ELSE [samples |-> data.samples, len |-> data.len]

\* Mutant of combine_audio_files: the buffers are concatenated last first.
combine_reversed(file_list, files, target_sr, fail_at) ==
    LET n == Len(file_list) IN
    IF fail_at > 0 \/ n = 0 \/ \E k \in 1..n : file_list[k] \notin DOMAIN files
    THEN [ok |-> FALSE, read_failed |-> n > 0, sr |-> target_sr, data |-> <<>>]
    ELSE [ok |-> TRUE, read_failed |-> FALSE, sr |-> target_sr,
          data |-> [k \in 1..n |-> resample(files[file_list[n + 1 - k]],
                                            files[file_list[n + 1 - k]].sr, target_sr)]]

\* Mutant of combine_audio_files: a file that cannot be read is skipped and
\* what was read before it is written.
combine_partial(file_list, files, target_sr, fail_at) ==
    LET missing == {k \in 1..Len(file_list) : file_list[k] \notin DOMAIN files}
        bad == missing \cup (IF fail_at > 0 THEN {fail_at} ELSE {})
        stop == IF bad = {} THEN Len(file_list) + 1
                ELSE CHOOSE x \in bad : \A y \in bad : x <= y
    IN  [ok |-> TRUE, read_failed |-> bad # {}, sr |-> target_sr,
         data |-> [k \in 1..(stop - 1) |->
                     resample(files[file_list[k]], files[file_list[k]].sr, target_sr)]]

\* Mutant of combine_audio_files: every buffer is appended as it was read.
combine_unresampled(file_list, files, target_sr, fail_at) ==
    LET missing == {k \in 1..Len(file_list) : file_list[k] \notin DOMAIN files}
        bad == missing \cup (IF fail_at > 0 THEN {fail_at} ELSE {})
    IN  IF bad # {} \/ Len(file_list) = 0
        THEN [ok |-> FALSE, read_failed |-> bad # {}, sr |-> target_sr, data |-> <<>>]
        ELSE [ok |-> TRUE, read_failed |-> FALSE, sr |-> target_sr,
              data |-> [k \in 1..Len(file_list) |->
                          [samples |-> files[file_list[k]].samples,
                           len |-> files[file_list[k]].len]]]

\* combine_audio_files: read every file of the list in order, resampling what
\* is not at target_sr, then write the concatenation at target_sr.
\* fail_at = 0: every read succeeds; k > 0: sf.read raises on the k-th file.
\* A file that is not there cannot be read; np.concatenate raises on an empty
\* list.  data is the written file's samples as the sequence of the buffers
\* concatenated.
combine_audio_files(file_list, files, target_sr, fail_at) ==
    LET missing == {k \in 1..Len(file_list) : file_list[k] \notin DOMAIN files}
        bad == missing \cup (IF fail_at > 0 THEN {fail_at} ELSE {})
    IN  IF bad # {} \/ Len(file_list) = 0
        THEN [ok |-> FALSE, read_failed |-> bad # {}, sr |-> target_sr, data |-> <<>>]
        ELSE [ok |-> TRUE, read_failed |-> FALSE, sr |-> target_sr,
              data |-> [k \in 1..Len(file_list) |->
                          resample(files[file_list[k]], files[file_list[k]].sr, target_sr)]]

Put(files, f, data) == [x \in DOMAIN files \cup {f} |-> IF x = f THEN data ELSE files[x]]

\* ------------------------------------------------------------ initial state
LocalsReset ==
    /\ current_voice_idx' = -1
    /\ audio_files' = <<>>
    /\ full_script' = <<>>
    /\ high_school_summary' = NoText
    /\ all_bullet_points' = <<>>
    /\ voice_log' = <<>>
    /\ final_audio' = <<>>
    /\ takeaways_call' = NoCall
    /\ llm_calls' = 0
    /\ synth_calls' = 0
    /\ llm_failed' = FALSE
    /\ read_failed' = FALSE

InitEpisode ==
    /\ doc = 0
    /\ metadata_dict = "full"
    /\ current_voice_idx = -1
    /\ audio_files = <<>>
    /\ full_script = <<>>
    /\ high_school_summary = NoText
    /\ all_bullet_points = <<>>
    /\ voice_log = <<>>
    /\ final_audio = <<>>
    /\ takeaways_call = NoCall
    /\ llm_calls = 0
    /\ synth_calls = 0
    /\ llm_failed = FALSE
    /\ read_failed = FALSE
    /\ output_at_entry = 0
    /\ temp_dir = FALSE
    /\ temp_files = <<>>
    /\ output_file = [d \in Docs |-> 0]
    /\ error = "none"
    /\ faults = 0

\* ------------------------------------------------------------ the feed
\* Identifiers are strings, modelled as sequences of tokens in which the
\* hyphen is a token of its own: "nber_w1", "nber-w2", "nber_w3", ...
unique_id(d) ==
    IF d % 2 = 1 THEN <<"nber_w", ToString(d)>> ELSE <<"nber", "-", "w", ToString(d)>>

\* str.split(sep)
RECURSIVE Split(_, _)
Split(str, sep) ==
    LET at == {i \in 1..Len(str) : str[i] = sep} IN
    IF at = {} THEN <<str>>
    ELSE LET i == CHOOSE x \in at : \A y \in at : x <= y
         IN  <<SubSeq(str, 1, i - 1)>> \o Split(SubSeq(str, i + 1, Len(str)), sep)

\* fe.id(f"pushpod-{metadata['unique_id']}")
entry_id(uid) == <<"pushpod", "-">> \o uid
\* unique_id = entry.id.split('-')[1]
recovered_id(eid) == Split(eid, "-")[2]

Reverse(seq) == [k \in 1..Len(seq) |-> seq[Len(seq) + 1 - k]]
EntriesOf(entries, d) == {k \in 1..Len(entries) : entries[k].id = entry_id(unique_id(d))}

\* load_existing_feed.  fail_at = -1: reading the file raises nothing of its
\* own; 0: it raises before the loop over the entries; k > 0: while entry k is
\* recreated.  An entry that lacks a field (complete = FALSE) raises when it is
\* recreated, after its identifier was added.  Every entry id of a feed this
\* program wrote starts with "pushpod-", so split('-')[1] exists.
\* fg.add_entry() puts the new entry first.
load_existing_feed(file, fail_at) ==
    LET n == Len(file.entries)
        stops == {k \in 1..n : ~file.entries[k].complete}
                   \cup (IF fail_at >= 0 THEN {fail_at} ELSE {})
        Ids(k) == {recovered_id(file.entries[j].id) : j \in 1..k}
    IN  IF ~file.exists THEN [fg |-> <<>>, ids |-> {}]
        ELSE IF stops = {} THEN [fg |-> Reverse(file.entries), ids |-> Ids(n)]
        ELSE [fg |-> <<>>, ids |-> Ids(CHOOSE x \in stops : \A y \in stops : x <= y)]

\* add_podcast_to_feed: the entry is added, then filled in; complete = FALSE
\* when filling it in raised (a field of the metadata record is missing).
add_podcast_to_feed(entries, d, complete) ==
    <<[id |-> entry_id(unique_id(d)), complete |-> complete]>> \o entries

\* Nothing logged yet as the end of a run.
NoSummary == [message |-> "none", counts |-> <<>>]

\* The second process_all_papers call has not been started.
NoRun == [loaded |-> FALSE, fg |-> <<>>, existing_ids |-> {}, registered |-> {}]

NoFile == [exists |-> FALSE, entries |-> <<>>]
File(entries) == [exists |-> TRUE, entries |-> entries]

InitBatch ==
    /\ run = 0
    /\ idx = 0
    /\ fg = <<>>
    /\ existing_ids = {}
    /\ feed_xml = NoFile
    /\ dropbox_feed = NoFile
    /\ result = [d \in Docs |-> "none"]
    /\ uploads = {}
    /\ synth_run = {}
    /\ publish_failed = {}
    /\ faults_at_start = 0
    /\ aborted = "no"
    /\ summary = NoSummary
    /\ calls = <<>>
    /\ other_run = NoRun

\* ------------------------------------------------------------ process_paper
\* process_paper(pdf_path, output_path, metadata_dict) is entered.
Enter(d, md) ==
    /\ LocalsReset
    /\ doc' = d
    /\ metadata_dict' = md
    /\ output_at_entry' = output_file[d]
    /\ error' = "none"
    /\ pc' = "make_podcast"
    /\ UNCHANGED <<disk, faults>>

\* Mutant of Raise: the exception is swallowed and the assembly goes on with
\* the segments there are.
Raise_and_combine(kind) ==
    /\ error' = "none"
    /\ pc' = "combine"

\* Mutant of Raise: the exception is noted and the planner is called again.
Raise_and_replan(kind) ==
    /\ error' = kind
    /\ pc' = "plan"

\* An exception leaves make_podcast: process_paper logs it, re-raises, and the
\* finally clause runs next.
Raise(kind) ==
    /\ error' = kind
    /\ pc' = "finally"

\* Mutant of output_exists: the guard never fires.
output_exists_never(d) == FALSE

\* Path(output_path).exists()
output_exists(d) == output_file[d] > 0

\* make_podcast, lines 215-228: the output-exists guard, then mkdir.
make_podcast ==
    /\ pc = "make_podcast"
    /\ UNCHANGED batch
    /\ IF output_exists(doc)
       THEN /\ pc' = "finally"
            /\ UNCHANGED <<episode, disk, error, faults>>
       ELSE /\ temp_dir' = TRUE
            /\ current_voice_idx' = -1
            /\ pc' = "resolve_metadata"
            /\ UNCHANGED <<doc, metadata_dict, audio_files, full_script,
                           high_school_summary, all_bullet_points, voice_log,
                           final_audio, takeaways_call, llm_calls, synth_calls, llm_failed,
                           read_failed, output_at_entry,
                           temp_files, output_file, error, faults>>

\* make_podcast, lines 231-232, with get_structured_metadata (67-86).
ResolveMetadata ==
    /\ pc = "resolve_metadata"
    /\ UNCHANGED batch
    /\ IF metadata_dict # "empty"
       THEN /\ pc' = "summary_text"
            /\ UNCHANGED <<episode, error, faults>>
       ELSE \E o1 \in LlmOutcomes(TRUE), o2 \in OpenAiOutcomes :
            /\ o1 = "raise" => o2 = "parsed"
            /\ faults + Cost(o1) + Cost(o2) <= MaxFaults
            /\ faults' = faults + Cost(o1) + Cost(o2)
            /\ llm_calls' = llm_calls + (IF o1 = "raise" THEN 1 ELSE 2)
            /\ llm_failed' = (llm_failed \/ o1 # "text" \/ o2 # "parsed")
            /\ IF o1 = "raise" \/ o2 = "raise"
               THEN /\ Raise("MetadataExtractionError")
                    /\ UNCHANGED metadata_dict
               ELSE /\ metadata_dict' = "full"
                    /\ pc' = "summary_text"
                    /\ UNCHANGED error
            /\ UNCHANGED <<doc, current_voice_idx, audio_files, full_script,
                           high_school_summary, all_bullet_points, voice_log,
                           final_audio, takeaways_call, synth_calls, read_failed, output_at_entry>>
    /\ UNCHANGED disk

\* make_podcast, line 235, with get_high_school_summary (88-102).
HighSchoolSummary ==
    /\ pc = "summary_text"
    /\ UNCHANGED batch
    /\ \E o \in LlmOutcomes(TRUE) :
        /\ faults' = faults + Cost(o)
        /\ llm_calls' = llm_calls + 1
        /\ llm_failed' = (llm_failed \/ o # "text")
        /\ IF o = "raise"
           THEN /\ Raise("LlmError")
                /\ UNCHANGED high_school_summary
           ELSE /\ high_school_summary' = get_llm_response(o, 1)
                /\ pc' = "plan"
                /\ UNCHANGED error
    /\ UNCHANGED <<doc, metadata_dict, current_voice_idx, audio_files, full_script,
                   all_bullet_points, voice_log, final_audio, takeaways_call, synth_calls,
                   read_failed, output_at_entry, disk>>

\* make_podcast, line 238, with get_all_section_bullets_at_once (117-125).
SectionBullets ==
    /\ pc = "plan"
    /\ UNCHANGED batch
    /\ \E o1 \in LlmOutcomes(TRUE), o2 \in OpenAiOutcomes, plan \in Plans :
        /\ o1 = "raise" => o2 = "parsed"
        /\ (o1 = "raise" \/ o2 = "raise") => plan = <<>>
        /\ faults + Cost(o1) + Cost(o2) <= MaxFaults
        /\ faults' = faults + Cost(o1) + Cost(o2)
        /\ llm_calls' = llm_calls + (IF o1 = "raise" THEN 1 ELSE 2)
        /\ llm_failed' = (llm_failed \/ o1 # "text" \/ o2 # "parsed")
        /\ IF o1 = "raise" \/ o2 = "raise"
           THEN /\ Raise("PlanningShapeError")
                /\ UNCHANGED all_bullet_points
           ELSE /\ all_bullet_points' = plan
                /\ pc' = "metadata_audio"
                /\ UNCHANGED error
    /\ UNCHANGED <<doc, metadata_dict, current_voice_idx, audio_files, full_script,
                   high_school_summary, voice_log, final_audio, takeaways_call, synth_calls,
                   read_failed, output_at_entry, disk>>

\* generate_audio(text, voice, temp_dir / file) followed by the appends to
\* audio_files and, except for the takeaways (the segment before the
\* assembly), to full_script.  sf.write raises when the directory is not
\* there.
Render(text, voice, file, next, s) ==
    /\ synth_calls' = synth_calls + 1
    /\ voice_log' = Append(voice_log, voice)
    /\ IF s = "raise" \/ ~temp_dir
       THEN /\ Raise("SynthesisError")
            /\ UNCHANGED <<temp_files, audio_files, full_script>>
       ELSE /\ temp_files' = Put(temp_files, file, Audio(text, voice))
            /\ audio_files' = Append(audio_files, file)
            /\ full_script' = IF next = "combine" THEN full_script
                               ELSE Append(full_script, text)
            /\ pc' = next
            /\ UNCHANGED error

\* make_podcast, lines 247-259: the metadata segment, spoken by voices[0].
MetadataAudio ==
    /\ pc = "metadata_audio"
    /\ UNCHANGED batch
    /\ \E s \in SynthOutcomes :
        /\ faults' = faults + Cost(s)
        /\ Render([ord |-> 0, src |-> "template"], VOICES[1], METADATA_FILE,
                  "summary_audio", s)
    /\ UNCHANGED <<doc, metadata_dict, current_voice_idx, high_school_summary,
                   all_bullet_points, final_audio, takeaways_call, llm_calls, llm_failed,
                   read_failed, output_at_entry, temp_dir, output_file>>

\* make_podcast, lines 262-267: the summary segment.
SummaryAudio ==
    /\ pc = "summary_audio"
    /\ UNCHANGED batch
    /\ LET nv == get_next_voice(VOICES, current_voice_idx) IN
       \E s \in SynthOutcomes :
        /\ faults' = faults + Cost(s)
        /\ current_voice_idx' = nv[2]
        /\ Render(high_school_summary, nv[1], SUMMARY_FILE, "background", s)
    /\ UNCHANGED <<doc, metadata_dict, high_school_summary, all_bullet_points,
                   final_audio, takeaways_call, llm_calls, llm_failed, read_failed, output_at_entry,
                   temp_dir, output_file>>

\* One narrated segment whose text comes from the language model: the voice is
\* advanced, the text requested, then rendered.
Narrate(with_pdf, file, next) ==
    LET nv == get_next_voice(VOICES, current_voice_idx) IN
    \E o \in LlmOutcomes(with_pdf), s \in SynthOutcomes :
        /\ o = "raise" => s = "ok"
        /\ faults + Cost(o) + Cost(s) <= MaxFaults
        /\ faults' = faults + Cost(o) + Cost(s)
        /\ current_voice_idx' = nv[2]
        /\ llm_calls' = llm_calls + 1
        /\ llm_failed' = (llm_failed \/ o # "text")
        /\ IF o = "raise"
           THEN /\ Raise("LlmError")
                /\ UNCHANGED <<temp_files, audio_files, full_script, voice_log,
                               synth_calls>>
           ELSE Render(get_llm_response(o, Len(audio_files)), nv[1], file, next, s)

\* make_podcast, lines 270-276: the background segment.
BackgroundOverview ==
    /\ pc = "background"
    /\ UNCHANGED batch
    /\ Narrate(TRUE, BACKGROUND_FILE, "sections")
    /\ UNCHANGED <<doc, metadata_dict, high_school_summary, all_bullet_points,
                   final_audio, takeaways_call, read_failed, output_at_entry, temp_dir, output_file>>

\* make_podcast, lines 278-288: one iteration of the loop over the sections.
SectionIndex == Len(audio_files) - 2
GenerateSection ==
    /\ pc = "sections"
    /\ UNCHANGED batch
    /\ SectionIndex <= Len(all_bullet_points)
    /\ Narrate(TRUE, SectionFile(all_bullet_points[SectionIndex]), "sections")
    /\ UNCHANGED <<doc, metadata_dict, high_school_summary, all_bullet_points,
                   final_audio, takeaways_call, read_failed, output_at_entry, temp_dir, output_file>>

\* Mutant of get_final_takeaways: the takeaways are asked for from the
\* document, not from the script.
get_final_takeaways_from_pdf(script) ==
    [script |-> <<>>, with_pdf |-> TRUE, made |-> TRUE]

\* get_final_takeaways(script): the call of get_llm_response it makes, with
\* the script in the prompt and no pdf_path.
get_final_takeaways(script) ==
    [script |-> script, with_pdf |-> FALSE, made |-> TRUE]

\* make_podcast, lines 291-298: the takeaways segment, asked for with
\* script_text, the texts of full_script joined in order.
FinalTakeaways ==
    /\ pc = "sections"
    /\ UNCHANGED batch
    /\ SectionIndex > Len(all_bullet_points)
    /\ takeaways_call' = get_final_takeaways(full_script)
    /\ Narrate(get_final_takeaways(full_script).with_pdf, TAKEAWAY_FILE, "combine")
    /\ UNCHANGED <<doc, metadata_dict, high_school_summary, all_bullet_points,
                   final_audio, read_failed, output_at_entry, temp_dir, output_file>>

\* make_podcast, line 303: combine_audio_files over the list, into output_path.
Combine ==
    /\ pc = "combine"
    /\ UNCHANGED batch
    /\ \E fail_at \in 0..(IF CanFault THEN Len(audio_files) ELSE 0) :
        LET r == combine_audio_files(audio_files, temp_files, TARGET_SR, fail_at) IN
        /\ faults' = faults + (IF fail_at > 0 THEN 1 ELSE 0)
        /\ read_failed' = r.read_failed
        /\ IF r.ok
           THEN /\ output_file' = [output_file EXCEPT ![doc] = @ + 1]
                /\ final_audio' = r.data
                /\ pc' = "cleanup"
                /\ UNCHANGED error
           ELSE /\ Raise("AssemblyError")
                /\ UNCHANGED <<output_file, final_audio>>
    /\ UNCHANGED <<doc, metadata_dict, current_voice_idx, audio_files, full_script,
                   high_school_summary, all_bullet_points, voice_log, llm_calls,
                   synth_calls, llm_failed, output_at_entry, temp_dir, temp_files,
                   takeaways_call>>

\* make_podcast, line 306: cleanup_temp_files(temp_dir).
Cleanup ==
    /\ pc = "cleanup"
    /\ UNCHANGED batch
    /\ \E o \in CleanupOutcomes(temp_dir, temp_files) :
        LET r == cleanup_temp_files(temp_dir, temp_files, o) IN
        /\ faults' = faults + Cost(o.kind)
        /\ temp_dir' = r.dir
        /\ temp_files' = r.files
        /\ pc' = "finally"
        /\ error' = IF r.raised THEN "CleanupError" ELSE error
    /\ UNCHANGED <<episode, output_file>>

\* process_paper, lines 316-317: the finally clause, then the call ends:
\* it returns, or the exception in flight (or the one cleanup raised) goes on
\* to the caller.
Finally ==
    /\ pc = "finally"
    /\ UNCHANGED batch
    /\ \E o \in CleanupOutcomes(temp_dir, temp_files) :
        LET r == cleanup_temp_files(temp_dir, temp_files, o) IN
        /\ faults' = faults + Cost(o.kind)
        /\ temp_dir' = r.dir
        /\ temp_files' = r.files
        /\ pc' = "returned"
        /\ error' = IF r.raised THEN "CleanupError" ELSE error
    /\ UNCHANGED <<episode, output_file>>

EpisodeStep ==
    \/ make_podcast
    \/ ResolveMetadata
    \/ HighSchoolSummary
    \/ SectionBullets
    \/ MetadataAudio
    \/ SummaryAudio
    \/ BackgroundOverview
    \/ GenerateSection
    \/ FinalTakeaways
    \/ Combine
    \/ Cleanup
    \/ Finally

\* ------------------------------------------------------------ a direct caller
\* process_paper called on its own, any number of times, for one document and
\* output path, with supplied or empty metadata.
DirectCall ==
    /\ pc = "caller"
    /\ \E md \in {"full", "empty"} : Enter(CHOOSE d \in Docs : TRUE, md)
    /\ UNCHANGED batch

DirectReturn ==
    /\ pc = "returned"
    /\ pc' = "caller"
    /\ LocalsReset
    /\ doc' = 0
    /\ metadata_dict' = "full"
    /\ output_at_entry' = 0
    /\ error' = "none"
    /\ UNCHANGED <<disk, faults, batch>>

InitPaper ==
    /\ pc = "caller"
    /\ InitEpisode
    /\ InitBatch

NextPaper == DirectCall \/ DirectReturn \/ EpisodeStep

SpecPaper == InitPaper /\ [][NextPaper]_vars

\* ------------------------------------------------------------ two episodes at a time
\* process_paper runs for one document while other process_paper calls, for
\* other documents, run at the same time.  Of the other calls only what they
\* do to the directory is modelled: temp_dir is Path("temp_audio") for every
\* call, so they create it (line 224), render their own metadata segment to
\* temp_audio/metadata.wav (lines 256-257) and remove the directory with all
\* it holds (cleanup_temp_files, also on the output-exists path and after a
\* failure, through the finally clause).
OtherAudio == Audio([ord |-> 0, src |-> "other_episode"], VOICES[1])

OtherMkdir ==
    /\ ~temp_dir
    /\ temp_dir' = TRUE
    /\ UNCHANGED <<pc, episode, temp_files, output_file, error, faults, batch>>

OtherRender ==
    /\ temp_dir
    /\ temp_files' = Put(temp_files, METADATA_FILE, OtherAudio)
    /\ temp_files' # temp_files
    /\ UNCHANGED <<pc, episode, temp_dir, output_file, error, faults, batch>>

OtherCleanup ==
    LET r == cleanup_temp_files(temp_dir, temp_files, [kind |-> "removed"]) IN
    /\ temp_dir
    /\ temp_dir' = r.dir
    /\ temp_files' = r.files
    /\ UNCHANGED <<pc, episode, output_file, error, faults, batch>>

NextConcurrent == NextPaper \/ OtherMkdir \/ OtherRender \/ OtherCleanup

SpecConcurrent == InitPaper /\ [][NextConcurrent]_vars

\* ------------------------------------------------------------ get_next_voice, called directly
\* A caller takes any non-empty list of voices and calls get_next_voice with
\* index -1, then again and again with the index the call before returned.
VoiceNames == {VOICES[k] : k \in DOMAIN VOICES}
VoiceLists == UNION {[1..n -> VoiceNames] : n \in 1..MaxVoices}

NextVoiceCall ==
    /\ pc = "caller"
    /\ \E voices \in VoiceLists :
        LET current_index == IF calls = <<>> THEN -1 ELSE calls[Len(calls)].ret[2] IN
        /\ calls # <<>> => voices = calls[1].args[1]
        /\ Len(calls) < 2 * Len(voices)
        /\ calls' = Append(calls, [args |-> <<voices, current_index>>,
                                   ret |-> get_next_voice(voices, current_index)])
    /\ UNCHANGED <<pc, episode, disk, error, faults, run, idx, feed, history, summary, other_run>>

SpecVoices == InitPaper /\ [][NextVoiceCall]_vars

\* ------------------------------------------------------------ add_podcast_to_feed, called directly
\* A caller registers documents with one feed, in any order and any number of
\* times each; a call returns, or raises while it fills the entry in.
AddPodcastCall ==
    /\ pc = "caller"
    /\ Len(calls) < MaxEntries
    /\ \E d \in Docs, complete \in BOOLEAN :
        /\ fg' = add_podcast_to_feed(fg, d, complete)
        /\ calls' = Append(calls, [args |-> <<fg, d>>, ret |-> fg'])
    /\ UNCHANGED <<pc, episode, disk, error, faults, run, idx, existing_ids, feed_xml,
                   dropbox_feed, history, summary, other_run>>

SpecFeed == InitPaper /\ [][AddPodcastCall]_vars

\* ------------------------------------------------------------ combine_audio_files, called directly
\* A caller hands combine_audio_files a list of up to MaxFiles files, each
\* with its own rate and number of samples, and a target rate.  The k-th file
\* is named k and holds the samples k.
Rates == {22050, SYNTH_SR, TARGET_SR, 48000}
Lens == {0, 1, 22050, 44100}
TargetRates == {22050, TARGET_SR}
Buffers(n) == [1..n -> [sr : Rates, len : Lens]]

CombineCall ==
    /\ pc = "caller"
    /\ calls = <<>>
    /\ \E n \in 0..MaxFiles : \E b \in Buffers(n), target_sr \in TargetRates, fail_at \in 0..n :
        LET file_list == [k \in 1..n |-> k]
            files == [k \in 1..n |-> [samples |-> k, sr |-> b[k].sr, len |-> b[k].len]]
        IN  calls' = <<[args |-> <<file_list, files, target_sr, fail_at>>,
                        ret |-> combine_audio_files(file_list, files, target_sr, fail_at)]>>
    /\ UNCHANGED <<pc, episode, disk, error, faults, run, idx, feed, history, summary, other_run>>

SpecCombine == InitPaper /\ [][CombineCall]_vars

\* ------------------------------------------------------------ clean_text, called directly
\* A caller cleans any text made of up to MaxPieces pieces, then cleans what
\* it got back.
Pieces == {<<"%">>, <<"*">>, <<" ">>, <<"\n">>, <<"#">>, <<"a">>, <<"-">>,
           <<"p", "e", "r", "c", "e", "n", "t">>}
RECURSIVE Flatten(_)
Flatten(ps) == IF ps = <<>> THEN <<>> ELSE Head(ps) \o Flatten(Tail(ps))
Texts == {Flatten(ps) : ps \in UNION {[1..n -> Pieces] : n \in 0..MaxPieces}}

CleanTextCall ==
    /\ pc = "caller"
    /\ Len(calls) < 2
    /\ \E text \in (IF calls = <<>> THEN Texts ELSE {calls[Len(calls)].ret}) :
        calls' = Append(calls, [args |-> text, ret |-> clean_text(text)])
    /\ UNCHANGED <<pc, episode, disk, error, faults, run, idx, feed, history, summary, other_run>>

SpecClean == InitPaper /\ [][CleanTextCall]_vars

\* ------------------------------------------------------------ process_all_papers
\* What can raise after process_paper returned: upload_to_dropbox of the audio
\* ("upload_audio_error"), add_podcast_to_feed ("feed_entry_error"),
\* upload_to_dropbox of the feed before ("upload_feed_error") or after
\* ("feed_link_error": the shared link) the file is stored, and
\* verify_feed_content, whose failed download leaves dropbox_feed unbound
\* at its return statement ("verify_error").
PublishErrors == {"upload_audio_error", "feed_entry_error", "upload_feed_error",
                  "feed_link_error", "verify_error"}
\* Lines 208-236: directories, remote storage, the feed is loaded, saved and
\* uploaded; an exception here leaves process_all_papers.
StartOutcomes == {"ok"} \cup (IF CanFault THEN {"dropbox_setup_error", "upload_error"} ELSE {})
LoadOutcomes == {-1} \cup (IF CanFault /\ feed_xml.exists THEN 0..Len(feed_xml.entries) ELSE {})

StartRun ==
    /\ pc = "batch_idle"
    /\ run < MaxRuns
    /\ \E o \in StartOutcomes, fail_at \in LoadOutcomes :
        LET cost == Cost(o) + (IF fail_at >= 0 THEN 1 ELSE 0)
            L == load_existing_feed(feed_xml, fail_at)
        IN
        /\ o = "dropbox_setup_error" => fail_at = -1
        /\ faults + cost <= MaxFaults
        /\ faults' = faults + cost
        /\ faults_at_start' = faults
        /\ run' = run + 1
        /\ result' = [d \in Docs |-> "none"]
        /\ uploads' = {}
        /\ synth_run' = {}
        /\ summary' = NoSummary
        /\ publish_failed' = publish_failed
                              \cup {d \in synth_run : result[d] \in PublishErrors}
        /\ IF o = "dropbox_setup_error"
           THEN /\ aborted' = "startup"
                /\ pc' = "batch_idle"
                /\ UNCHANGED <<idx, feed>>
           ELSE /\ fg' = L.fg
                /\ existing_ids' = L.ids
                /\ feed_xml' = File(L.fg)
                /\ IF o = "upload_error"
                   THEN /\ aborted' = "startup"
                        /\ pc' = "batch_idle"
                        /\ UNCHANGED <<idx, dropbox_feed>>
                   ELSE /\ aborted' = "no"
                        /\ dropbox_feed' = File(L.fg)
                        /\ idx' = 1
                        /\ pc' = "loop"
    /\ UNCHANGED <<episode, disk, error, calls, other_run>>

\* Lines 239-260: the metadata record is read, the document is skipped when
\* its identifier is in existing_ids, else its output path is derived and
\* process_paper is called.  Only the read of the record is inside a try.
\* Mutant of already_in_feed: no document is ever taken to be in the feed.
already_in_feed_never(d) == FALSE

\* Line 250: metadata['unique_id'] in existing_ids
already_in_feed(d) == unique_id(d) \in existing_ids

MetadataOutcomes ==
    {"ok"} \cup (IF CanFault THEN {"unreadable", "no_unique_id", "no_title"} ELSE {})

LoopStep ==
    /\ pc = "loop"
    /\ idx <= NumDocs
    /\ \E m \in MetadataOutcomes :
        LET d == idx IN
        IF m = "unreadable"
        THEN /\ result' = [result EXCEPT ![d] = "metadata_error"]
             /\ idx' = idx + 1
             /\ faults' = faults + 1
             /\ UNCHANGED <<pc, episode, disk, error, run, feed, uploads, synth_run,
                            publish_failed, faults_at_start, aborted, report>>
        ELSE IF m = "no_unique_id" \/ (m = "no_title" /\ ~already_in_feed(d))
        THEN /\ aborted' = "document"
             /\ pc' = "batch_idle"
             /\ faults' = faults + 1
             /\ UNCHANGED <<episode, disk, error, run, idx, feed, result, uploads,
                            synth_run, publish_failed, faults_at_start, report>>
        ELSE IF already_in_feed(d)
        THEN /\ result' = [result EXCEPT ![d] = "skipped"]
             /\ idx' = idx + 1
             /\ faults' = faults + Cost(m)
             /\ UNCHANGED <<pc, episode, disk, error, run, feed, uploads, synth_run,
                            publish_failed, faults_at_start, aborted, report>>
        ELSE /\ Enter(d, "full")
             /\ UNCHANGED batch

\* Lines 260-285, after process_paper: its exception is logged; else the
\* audio is uploaded, the entry added, the feed saved, uploaded and verified,
\* and the identifier added to existing_ids.  Any exception on the way is
\* logged and the loop goes on.
PublishOutcomes == {"ok"} \cup (IF CanFault THEN PublishErrors ELSE {})

AfterProcessPaper ==
    /\ pc = "returned"
    /\ pc' = "loop"
    /\ idx' = idx + 1
    /\ LocalsReset
    /\ doc' = 0
    /\ metadata_dict' = "full"
    /\ output_at_entry' = 0
    /\ error' = "none"
    /\ synth_run' = synth_run \cup (IF synth_calls > 0 THEN {doc} ELSE {})
    /\ IF error # "none"
       THEN /\ result' = [result EXCEPT ![doc] = "error"]
            /\ UNCHANGED <<feed, uploads, faults>>
       ELSE \E o \in PublishOutcomes :
            LET added == add_podcast_to_feed(fg, doc, o # "feed_entry_error") IN
            /\ faults' = faults + Cost(o)
            /\ uploads' = uploads \cup {doc}
            /\ result' = [result EXCEPT ![doc] = o]
            /\ fg' = IF o = "upload_audio_error" THEN fg ELSE added
            /\ feed_xml' = IF o \in {"upload_audio_error", "feed_entry_error"}
                           THEN feed_xml ELSE File(added)
            /\ dropbox_feed' = IF o \in {"feed_link_error", "verify_error", "ok"}
                               THEN File(added) ELSE dropbox_feed
            /\ existing_ids' = IF o = "ok" THEN existing_ids \cup {unique_id(doc)}
                               ELSE existing_ids
    /\ UNCHANGED <<disk, run, publish_failed, faults_at_start, aborted, report>>

\* Line 287: the loop is over, and "Finished processing papers" is logged.
Finish ==
    /\ pc = "loop"
    /\ idx > NumDocs
    /\ pc' = "batch_idle"
    /\ summary' = [message |-> "Finished processing papers", counts |-> <<>>]
    /\ UNCHANGED <<episode, disk, error, faults, run, idx, feed, history, calls, other_run>>

Init ==
    /\ pc = "batch_idle"
    /\ InitEpisode
    /\ InitBatch

Next == StartRun \/ LoopStep \/ AfterProcessPaper \/ Finish \/ EpisodeStep

Spec == Init /\ [][Next]_vars

\* ------------------------------------------------------------ two batch runs at a time
\* A second process_all_papers call runs at the same time, in the same working
\* directory and against the same remote folder.  Of it, the steps on the
\* shared files are modelled, each as the code takes it when nothing fails:
\* lines 213-218 (the feed is loaded into the call's own fg and existing_ids,
\* then saved and uploaded), and, per document that passes the test of line
\* 250, lines 260-279 (process_paper writes the output unless it exists, the
\* entry is added to the call's own fg, which is saved and uploaded, and the
\* identifier joins the call's existing_ids).
OtherStartRun ==
    LET L == load_existing_feed(feed_xml, -1) IN
    /\ ~other_run.loaded
    /\ other_run' = [loaded |-> TRUE, fg |-> L.fg, existing_ids |-> L.ids,
                     registered |-> {}]
    /\ feed_xml' = File(L.fg)
    /\ dropbox_feed' = File(L.fg)
    /\ UNCHANGED <<pc, episode, disk, error, faults, run, idx, fg, existing_ids,
                   history, summary, calls>>

OtherPublish ==
    /\ other_run.loaded
    /\ \E d \in Docs :
        LET added == add_podcast_to_feed(other_run.fg, d, TRUE) IN
        /\ unique_id(d) \notin other_run.existing_ids
        /\ output_file' = [output_file EXCEPT ![d] = IF @ = 0 THEN 1 ELSE @]
        /\ other_run' = [other_run EXCEPT !.fg = added,
                                          !.existing_ids = @ \cup {unique_id(d)},
                                          !.registered = @ \cup {d}]
        /\ feed_xml' = File(added)
        /\ dropbox_feed' = File(added)
    /\ UNCHANGED <<pc, episode, temp_dir, temp_files, error, faults, run, idx, fg,
                   existing_ids, history, summary, calls>>

NextTwoRuns == Next \/ OtherStartRun \/ OtherPublish

SpecTwoRuns == Init /\ [][NextTwoRuns]_vars

\* ============================================================ claims

\* C1: when the output path already exists as process_paper is called, the
\* call makes no synthesis call and no language-model call and leaves the
\* output file as it was; so the output file of a document is written at most
\* once, however often the pipeline runs for it.
C1_SkipWhenOutputExists ==
    /\ (doc # 0 /\ output_at_entry > 0) =>
          (synth_calls = 0 /\ llm_calls = 0 /\ output_file[doc] = output_at_entry)
    /\ \A d \in Docs : output_file[d] <= 1
\* a second call for a document whose output exists has ended
C1_Witness == pc = "returned" /\ output_at_entry > 0 /\ error = "none"

\* C2: the list of segment files handed to combine_audio_files is
\* [metadata, summary, background, s1..sN, takeaways] with the sections in plan
\* order, and what is written is the files' audio, brought to the target
\* rate, in that list order.
ExpectedFiles ==
    <<METADATA_FILE, SUMMARY_FILE, BACKGROUND_FILE>>
    \o [k \in 1..Len(all_bullet_points) |-> SectionFile(all_bullet_points[k])]
    \o <<TAKEAWAY_FILE>>
C2_SegmentOrder ==
    /\ pc = "combine" => audio_files = ExpectedFiles
    /\ pc = "cleanup" =>
          /\ audio_files = ExpectedFiles
          /\ final_audio = [k \in 1..Len(audio_files) |->
                               resample(temp_files[audio_files[k]],
                                        temp_files[audio_files[k]].sr, TARGET_SR)]
\* an episode with two different sections has been assembled
C2_Witness ==
    pc = "cleanup" /\ all_bullet_points = <<"Data", "Findings">> /\ final_audio # <<>>

\* C3 (as claimed): once process_paper has ended, in whatever way, no
\* per-segment file is left in the temporary directory.  (The claim says the
\* same of the directory itself, which a failed rmdir leaves behind as well.)
C3_TempFilesRemoved == pc = "returned" => DOMAIN temp_files = {}

\* C4 (as claimed): a failure tied to one document never stops the batch: a
\* run that got past its startup visits every document.
C4_BatchVisitsAll ==
    (pc = "batch_idle" /\ run > 0 /\ aborted # "startup") =>
        \A d \in Docs : result[d] # "none"

\* C5 (as claimed): when a language-model call of an episode failed,
\* process_paper raises and no output file is created for the document.
C5_LlmFailureFailsEpisode ==
    (pc = "returned" /\ llm_failed) => (error # "none" /\ output_file[doc] = 0)

\* C6 (as claimed): the feed never holds two entries with the same document
\* identifier, in memory, in the local file or in remote storage.
NoDuplicates(entries) == \A d \in Docs : Cardinality(EntriesOf(entries, d)) <= 1
C6_FeedNoDuplicates ==
    NoDuplicates(fg) /\ NoDuplicates(feed_xml.entries) /\ NoDuplicates(dropbox_feed.entries)

\* C7 (as claimed): when the upload or the shared link of a document's audio
\* or of the updated feed failed, the local output exists, the identifier is
\* not in existing_ids and the feed has no entry for the document.
C7_UploadFailureLeavesFeed ==
    \A d \in Docs :
        (pc = "loop" /\ result[d] \in {"upload_audio_error", "upload_feed_error",
                                       "feed_link_error"}) =>
            /\ output_file[d] > 0
            /\ unique_id(d) \notin existing_ids
            /\ EntriesOf(fg, d) = {}
            /\ EntriesOf(feed_xml.entries, d) = {}

\* C8 (as claimed): a run without failures that follows a run which produced
\* a document's audio and failed to publish it synthesizes nothing for the
\* document, uploads its output again and ends with one feed entry for it.
C8_RetryPublishes ==
    (pc = "batch_idle" /\ run > 0 /\ aborted = "no" /\ faults = faults_at_start) =>
        \A d \in publish_failed :
            /\ d \notin synth_run
            /\ d \in uploads
            /\ Cardinality(EntriesOf(feed_xml.entries, d)) = 1

\* C9: when a segment file cannot be read as combine_audio_files runs, the
\* assembly ends in an error and nothing is written to the output path.
C9_NoPartialOutput ==
    read_failed => (error # "none" /\ output_file[doc] = 0 /\ final_audio = <<>>)
\* an episode whose assembly could not read a segment file has ended
C9_Witness == read_failed /\ pc = "returned"

\* C10 (as claimed): the segment at position i (0-based) is synthesized with
\* VOICES[i mod L], so consecutive segments never share a voice.
C10_VoiceRotation ==
    /\ \A i \in 1..Len(voice_log) : voice_log[i] = VOICES[((i - 1) % Len(VOICES)) + 1]
    /\ \A i \in 1..(Len(voice_log) - 1) : voice_log[i] # voice_log[i + 1]

\* C11: from index -1, the i-th of L successive get_next_voice calls on a list
\* of L voices returns the i-th voice of the list (so each voice once, in list
\* order), and the (L+k)-th call returns what the k-th call returned.
C11_RotationCycle ==
    \A i \in 1..Len(calls) :
        LET voices == calls[1].args[1]
            L == Len(voices)
        IN  /\ i <= L => calls[i].ret[1] = voices[i]
            /\ i > L => calls[i].ret[1] = calls[i - L].ret[1]
\* a list of three different voices has been gone through twice
C11_Witness ==
    /\ Len(calls) = 6
    /\ calls[1].args[1] = <<"af_bella", "af_sarah", "af_heart">>
    /\ calls[6].ret[1] = "af_heart"

\* C12 (as claimed): once add_podcast_to_feed was called, and returned, twice
\* for the same document identifier on one feed, the feed holds exactly one
\* entry for it.
C12_RegisterTwiceOneEntry ==
    \A i, j \in 1..Len(calls) :
        (/\ i < j
         /\ calls[i].args[2] = calls[j].args[2]
         /\ calls[i].ret[1].complete /\ calls[j].ret[1].complete) =>
            Cardinality(EntriesOf(fg, calls[i].args[2])) = 1

\* C13: combine_audio_files, given a non-empty list of files it can read,
\* writes one file at the target rate; the number of its samples is the sum
\* over the inputs of len_i when rate_i is the target rate and of
\* int(len_i * target / rate_i) otherwise; a buffer at the target rate is in
\* the output as it was read, at its position; one second at 22050 Hz followed
\* by one second at 44100 Hz gives two seconds at 44100 Hz.
RECURSIVE TotalSamples(_)
TotalSamples(data) ==
    IF data = <<>> THEN 0 ELSE data[1].len + TotalSamples(Tail(data))
ExpectedSamples(f, target) ==
    IF f.sr = target THEN f.len ELSE (f.len * target) \div f.sr
RECURSIVE ExpectedTotal(_, _)
ExpectedTotal(fs, target) ==
    IF fs = <<>> THEN 0 ELSE ExpectedSamples(fs[1], target) + ExpectedTotal(Tail(fs), target)
OneSecondEach(c) ==
    /\ Len(c.args[1]) = 2 /\ c.args[3] = 44100 /\ c.args[4] = 0
    /\ c.args[2][1].sr = 22050 /\ c.args[2][1].len = 22050
    /\ c.args[2][2].sr = 44100 /\ c.args[2][2].len = 44100
C13_CombinedLength ==
    \A i \in 1..Len(calls) :
        LET file_list == calls[i].args[1]
            files == calls[i].args[2]
            target == calls[i].args[3]
            out == calls[i].ret
            n == Len(file_list)
        IN  (calls[i].args[4] = 0 /\ n > 0) =>
                /\ out.ok /\ out.sr = target /\ Len(out.data) = n
                /\ TotalSamples(out.data)
                       = ExpectedTotal([k \in 1..n |-> files[file_list[k]]], target)
                /\ \A k \in 1..n :
                      files[file_list[k]].sr = target =>
                          out.data[k] = [samples |-> files[file_list[k]].samples,
                                         len |-> files[file_list[k]].len]
                /\ OneSecondEach(calls[i]) => TotalSamples(out.data) = 2 * 44100
\* one second at 22050 Hz and one second at 44100 Hz have been combined
C13_Witness ==
    calls # <<>> /\ OneSecondEach(calls[1]) /\ calls[1].ret.ok
       /\ calls[1].ret.data[1].len = 44100

\* C14: what clean_text returns holds only letters, digits, the characters
\* . , ! ? ' - and single spaces, no two spaces next to each other and no
\* whitespace at either end.
C14_CleanCharacters ==
    \A i \in 1..Len(calls) :
        LET out == calls[i].ret IN
        /\ \A k \in 1..Len(out) : out[k] \in Letters \cup Digits \cup Punctuation \cup {" "}
        /\ \A k \in 1..(Len(out) - 1) : ~(out[k] = " " /\ out[k + 1] = " ")
        /\ out # <<>> => (out[1] # " " /\ out[Len(out)] # " ")
\* a text with a special character, a line break and a percent sign was cleaned
C14_Witness ==
    /\ calls # <<>>
    /\ calls[1].args = <<"a", "#", "\n", "%">>
    /\ calls[1].ret = <<"a", " ", "p", "e", "r", "c", "e", "n", "t">>

\* C15: cleaning what clean_text returned returns it unchanged.
C15_CleanIdempotent == Len(calls) = 2 => calls[2].ret = calls[1].ret
\* a text that cleaning changes was cleaned twice
C15_Witness ==
    /\ Len(calls) = 2
    /\ calls[1].args = <<"a", "#", " ", "a">>
    /\ calls[2].args = <<"a", " ", "a">>

\* C16 (as claimed): the word "percent" occurs in what clean_text returns as
\* often as the character % occurs in its input.
Occurrences(word, text) ==
    Cardinality({k \in 1..(Len(text) - Len(word) + 1) :
                    SubSeq(text, k, k + Len(word) - 1) = word})
C16_PercentCount ==
    \A i \in 1..Len(calls) :
        Occurrences(Tail(PERCENT), calls[i].ret) = Occurrences(<<"%">>, calls[i].args)
\* C16 (amended): the word "percent" occurs in what clean_text returns as
\* often as the character % and the word "percent" together occur in its input.
C16_PercentCountAmended ==
    \A i \in 1..Len(calls) :
        Occurrences(Tail(PERCENT), calls[i].ret)
            = Occurrences(<<"%">>, calls[i].args) + Occurrences(Tail(PERCENT), calls[i].args)
\* a text with the word and two percent signs was cleaned
C16_Witness ==
    /\ calls # <<>>
    /\ calls[1].args = <<"%", "p", "e", "r", "c", "e", "n", "t", "%">>
    /\ Occurrences(Tail(PERCENT), calls[1].ret) = 3

\* C17 (as claimed): what process_all_papers reports as a run ends holds the
\* numbers of succeeded, skipped and failed documents, and the three add up to
\* the number of documents the run visited.
C17_SummaryCounts ==
    (pc = "batch_idle" /\ run > 0 /\ aborted = "no") =>
        /\ Len(summary.counts) = 3
        /\ summary.counts[1] + summary.counts[2] + summary.counts[3]
              = Cardinality({d \in Docs : result[d] # "none"})

\* C18: the output file is written only when all N+4 segments have been
\* synthesized; an episode that fails before the write creates no file at the
\* output path, and an episode that succeeds creates exactly one.
C18_OutputAfterAllSegments ==
    doc # 0 =>
        /\ output_file[doc] > output_at_entry =>
              /\ Len(audio_files) = Len(all_bullet_points) + 4
              /\ synth_calls = Len(all_bullet_points) + 4
              /\ Len(final_audio) = Len(all_bullet_points) + 4
        /\ (error # "none" /\ final_audio = <<>>) => output_file[doc] = output_at_entry
        /\ (pc = "returned" /\ error = "none" /\ output_at_entry = 0) =>
              output_file[doc] = 1
\* an episode with two sections has succeeded
C18_Witness ==
    /\ pc = "returned" /\ error = "none" /\ output_at_entry = 0
    /\ Len(all_bullet_points) = 2 /\ output_file[doc] = 1

\* C19 (as claimed): whatever names the planner returns, as the assembly
\* starts the segment-file list has N+4 entries, no two alike, and every file
\* still holds the audio of its own segment; the assembled output holds each
\* segment's audio exactly once.  (The text of the segment at position k,
\* counted from 0, has ord = k.)
C19_SegmentFilesDistinct ==
    LET n == Len(all_bullet_points) + 4 IN
    /\ pc = "combine" =>
          /\ Len(audio_files) = n
          /\ \A i, j \in 1..Len(audio_files) : i < j => audio_files[i] # audio_files[j]
          /\ \A k \in 1..Len(audio_files) :
                temp_files[audio_files[k]].samples.text.ord = k - 1
    /\ pc = "cleanup" =>
          \A k \in 0..(n - 1) :
              Cardinality({j \in 1..Len(final_audio) :
                              final_audio[j].samples.resampled.text.ord = k}) = 1

\* C20 (as claimed): the metadata extractor is called only when the supplied
\* metadata is empty, and when the extraction fails the error goes to the
\* caller and, at the point of failure, there is no temporary directory and
\* no temp file.
C20_ExtractionFailsBeforeTempState ==
    [][pc = "resolve_metadata" =>
          /\ llm_calls' > llm_calls => metadata_dict = "empty"
          /\ error' # "none" =>
                /\ pc' = "finally"
                /\ ~temp_dir'
                /\ DOMAIN temp_files' = {}]_vars

\* C21 (as claimed): a cleanup step removes every file but the one whose
\* removal failed, and no cleanup step turns an episode whose output was
\* assembled into a failed one.
C21_CleanupNeverFails ==
    [][(pc = "cleanup" \/ pc = "finally") =>
          /\ Cardinality(DOMAIN temp_files') <= 1
          /\ ((final_audio # <<>> /\ error = "none") => (error' = "none"))]_vars

\* C22 (as claimed): whenever load_existing_feed returns, also after it failed
\* partway through the entries, the identifiers it returns are those of the
\* entries of the feed it returns (identifiers as the loader reads them from
\* the entry ids).
LoadedIds(entries) == {recovered_id(entries[k].id) : k \in 1..Len(entries)}
C22_LoadedIdsMatchFeed ==
    [][(pc = "batch_idle" /\ pc' = "loop") => (existing_ids' = LoadedIds(fg'))]_vars

\* C23 (as claimed): for every document with an entry in the feed that a run
\* loaded, the identifier recovered from the entry id is the document's
\* identifier, so it is in existing_ids and the run skips the document.
C23_IdRoundTrip ==
    [][(pc = "batch_idle" /\ pc' = "loop") =>
          \A d \in Docs : (EntriesOf(fg', d) # {}) => (unique_id(d) \in existing_ids')]_vars

\* C24 (as claimed): no step of a batch run removes an entry from the local
\* feed file or from the uploaded feed, so what the local file held as the run
\* started is in both as it ends, whatever failed on the way.
EntrySet(file) == {file.entries[k] : k \in 1..Len(file.entries)}
C24_FeedEntriesKept ==
    [][/\ EntrySet(feed_xml) \subseteq EntrySet(feed_xml')
       /\ EntrySet(dropbox_feed) \subseteq EntrySet(dropbox_feed')]_vars

\* C25 (as claimed): when the download of the remote feed failed inside
\* verify_feed_content, the document's identifier is added to existing_ids
\* all the same and the visit ends as a success, not in the error branch of
\* the loop.  (result = "verify_error": that error branch was taken, for the
\* exception verify_feed_content raised.)
C25_VerifyFailureOnlyLogged ==
    \A d \in Docs : result[d] # "verify_error"

C27_SectionCount ==
    (pc = "combine" \/ final_audio # <<>>) =>
        (Len(all_bullet_points) >= 2 /\ Len(all_bullet_points) <= 4)

\* C28: the takeaways are asked for only when the texts of all N sections are
\* there, with the texts of the metadata, the summary, the background and the
\* sections, in segment order, as the script, and without the document.
C28_TakeawaysFromScript ==
    takeaways_call.made =>
        /\ ~takeaways_call.with_pdf
        /\ Len(takeaways_call.script) = Len(all_bullet_points) + 3
        /\ \A k \in 1..Len(takeaways_call.script) : takeaways_call.script[k].ord = k - 1
        /\ takeaways_call.script = full_script
\* the takeaways of an episode with two sections have been asked for
C28_Witness ==
    /\ takeaways_call.made /\ pc = "combine"
    /\ Len(all_bullet_points) = 2 /\ Len(takeaways_call.script) = 5

\* C29: a document whose identifier is among those loaded as the run started
\* (in existing_ids without having been published in this run) has had no
\* synthesis and no upload in the run, and the step that visits it changes
\* nothing in the feed, in memory, in the local file or in remote storage.
C29_SkipLeavesFeed ==
    [][/\ \A d \in Docs :
             (run > 0 /\ unique_id(d) \in existing_ids /\ result[d] # "ok") =>
                 (d \notin synth_run /\ d \notin uploads
                    /\ result[d] \in {"none", "skipped", "metadata_error"})
       /\ (pc = "loop" /\ idx <= NumDocs /\ unique_id(idx) \in existing_ids) =>
             (/\ UNCHANGED <<feed, synth_run, uploads, disk>>
              /\ pc' \in {"loop", "batch_idle"})]_vars
\* the second run has skipped a document that has its entry in the feed
C29_Witness ==
    /\ run = 2 /\ pc = "loop" /\ result[1] = "skipped"
    /\ Cardinality(EntriesOf(feed_xml.entries, 1)) = 1
    /\ 1 \notin synth_run

\* C30 (as claimed): while an episode is produced at the same time as others,
\* every segment file it has rendered is still there and still holds its own
\* audio until it is assembled, and the assembled output holds only the
\* episode's own segments.
C30_EpisodesIsolated ==
    /\ (pc \in {"summary_audio", "background", "sections", "combine"}) =>
          \A k \in 1..Len(audio_files) :
              /\ audio_files[k] \in DOMAIN temp_files
              /\ temp_files[audio_files[k]].samples.text.src # "other_episode"
    /\ \A j \in 1..Len(final_audio) :
          final_audio[j].samples.resampled.text.src # "other_episode"

\* C31 (as claimed): while two batch runs register episodes in the same feed,
\* and nothing fails, the entry of every document a run has registered is in
\* the local feed file and in the remote one, whichever run saved the feed
\* last.
C31_NoLostEntry ==
    (faults = 0) =>
        \A d \in Docs :
            (result[d] = "ok" \/ d \in other_run.registered) =>
                /\ EntriesOf(feed_xml.entries, d) # {}
                /\ EntriesOf(dropbox_feed.entries, d) # {}

====
